---- MODULE Spec2Model ----
(***************************************************************************)
(* Model of the new-token detection logic of spark-scraper:                *)
(* models.py (Token, TokenStore) and main.py (SparkScraper).               *)
(*                                                                         *)
(* Two specifications share the definitions below.                         *)
(*   Spec        the SparkScraper object driven by run_once,               *)
(*               run_continuous and the two page "response" handlers.      *)
(*   SpecEngine  SparkScraper.process_tokens applied once to every batch,  *)
(*               seen-set, phase and clock reading within the bounds.      *)
(***************************************************************************)
EXTENDS Integers, Sequences, FiniteSets

(* ------------------------------ bounds -------------------------------- *)

\* token ids are 1..NumIds
NumIds == 2

\* longest batch handed to process_tokens in SpecEngine
MaxBatch == 3

\* longest batch the feed serves in Spec
MaxFeedBatch == 2

\* longest batch of SpecParse and SpecDemo, whose items may lack an id or be
\* no token record at all
MaxParseBatch == 2

(* --------------------------- program constants ------------------------ *)

\* main.py:225  token.is_newly_created(threshold_minutes=30)
threshold_minutes == 30

\* models.py:47  threshold_minutes * 60
SecondsPerMinute == 60

(* ------------------------------ values -------------------------------- *)

Ids == 1..NumIds

\* The raw "token_created_at" of a feed item.  kind "iso" stands for a
\* well-formed ISO-8601 string denoting the instant secs (seconds on one
\* absolute time line), kind "bad" for a string datetime.fromisoformat
\* rejects, kind "none" for a missing field (dict.get gives None).
Iso(t) == [kind |-> "iso", secs |-> t]
Bad == [kind |-> "bad", secs |-> 0]
Absent == [kind |-> "none", secs |-> 0]

\* creation instants the feed uses, and the readings the wall clock takes
CreatedInstants == {0, 1200}
ClockTicks == {1799, 1800, 3600}

RawCreated == {Absent, Bad} \cup {Iso(t) : t \in CreatedInstants}

\* a raw feed item: item["token"]["id"], item["token"]["token_created_at"]
Items == [id : Ids, token_created_at : RawCreated]

SeqsUpTo(S, n) == UNION {[1..k -> S] : k \in 0..n}

\* token_data.get("id") of a token record without an id: Python's None,
\* written as the number 0, which is no id of the feed
NoId == 0

\* An item that is no token record (item is not a dict, or item["token"] is
\* None): Token.from_api_data raises AttributeError on it.
NoToken == [kind |-> "notoken", secs |-> 0]
Malformed == [id |-> NoId, token_created_at |-> NoToken]

\* the items of SpecParse and SpecDemo
ParseItems == Items \cup [id : {NoId}, token_created_at : RawCreated] \cup {Malformed}
ParseBatches == SeqsUpTo(ParseItems, MaxParseBatch)

\* the batches process_tokens is applied to in SpecEngine
Batches == SeqsUpTo(Items, MaxBatch)

\* The feed of Spec serves a fixed catalogue: the token with id i always
\* carries the same token_created_at.
FeedKinds == <<Iso(0), Absent, Bad, Iso(1200)>>
FeedCreated(i) == FeedKinds[((i - 1) % 4) + 1]
FeedItems == {[id |-> i, token_created_at |-> FeedCreated(i)] : i \in Ids}
FeedBatches == SeqsUpTo(FeedItems, MaxFeedBatch)

(* ------------------------------ models.py ----------------------------- *)

\* Token.__post_init__: created_datetime is assigned only when
\* token_created_at is a str; a str that does not parse gives None; a
\* non-str leaves the attribute unset.
post_init(raw) ==
    IF raw.kind = "none" THEN [kind |-> "unset", secs |-> 0]
    ELSE IF raw.kind = "iso" THEN [kind |-> "dt", secs |-> raw.secs]
    ELSE [kind |-> "None", secs |-> 0]

\* Token.from_api_data raises: there is no dict to call .get on
FromApiDataRaises(item) == item.token_created_at.kind = "notoken"

\* Token.from_api_data, for an item it does not raise on
from_api_data(item) ==
    [token_id |-> item.id,
     token_created_at |-> item.token_created_at,
     created_datetime |-> post_init(item.token_created_at)]

\* reading self.created_datetime raises AttributeError when it was never set
RaisesAttributeError(token) == token.created_datetime.kind = "unset"

\* variant of is_newly_created: an age equal to the threshold still counts
is_newly_created_le(token, threshold, t) ==
    IF token.created_datetime.kind # "dt" THEN FALSE
    ELSE (t - token.created_datetime.secs) <= threshold * SecondsPerMinute

\* Token.is_newly_created, for a token whose created_datetime is set;
\* t is the reading of datetime.now(tz)
is_newly_created(token, threshold, t) ==
    IF token.created_datetime.kind # "dt" THEN FALSE
    ELSE (t - token.created_datetime.secs) < threshold * SecondsPerMinute

\* variant of is_new_token: the check without the mark
is_new_token_no_mark(seen, token) ==
    [result |-> token.token_id \notin seen, seen |-> seen]

\* variant of is_new_token: the id is added before the membership test
is_new_token_marks_first(seen, token) ==
    [result |-> FALSE, seen |-> seen \cup {token.token_id}]

\* TokenStore.is_new_token: the returned bool and the seen-set afterwards
is_new_token(seen, token) ==
    IF token.token_id \in seen
    THEN [result |-> FALSE, seen |-> seen]
    ELSE [result |-> TRUE, seen |-> seen \cup {token.token_id}]

\* variant of add_token: the set is replaced by the one id
add_token_replaces(seen, token) == {token.token_id}

\* TokenStore.add_token
add_token(seen, token) == seen \cup {token.token_id}

(* ------------------------- main.py: process_tokens -------------------- *)

\* acc is the loop state of process_tokens: the two lists being built and
\* the seen-set of self.token_store.

\* variant of process_token: the steady-state branch also asks for
\* is_newly_created, as the first-run branch does
process_token_window_in_steady(acc, item, first, t) ==
    IF FromApiDataRaises(item) THEN acc     \* caught: the item is skipped
    ELSE
    LET token == from_api_data(item)
        acc1 == [acc EXCEPT !.all_tokens = Append(@, token)]
    IN  IF first
        THEN IF RaisesAttributeError(token)
             THEN acc1
             ELSE [acc1 EXCEPT
                     !.new_tokens =
                        IF is_newly_created(token, threshold_minutes, t)
                        THEN Append(@, token) ELSE @,
                     !.seen = add_token(@, token)]
        ELSE LET r == is_new_token(acc1.seen, token)
             IN  [acc1 EXCEPT
                     !.new_tokens =
                        IF r.result /\ ~RaisesAttributeError(token)
                           /\ is_newly_created(token, threshold_minutes, t)
                        THEN Append(@, token) ELSE @,
                     !.seen = r.seen]

\* One iteration of the for loop of process_tokens (main.py 218-236).
\* An item from_api_data raises on is skipped whole.  Otherwise
\* from_api_data and all_tokens.append come first; an exception raised after
\* them is caught by "except Exception: continue", which leaves what the
\* iteration had done so far and skips the rest of it.
process_token(acc, item, first, t) ==
    IF FromApiDataRaises(item) THEN acc     \* caught: the item is skipped
    ELSE
    LET token == from_api_data(item)
        acc1 == [acc EXCEPT !.all_tokens = Append(@, token)]
    IN  IF first
        THEN IF RaisesAttributeError(token)
             THEN acc1        \* is_newly_created raised: add_token is skipped
             ELSE [acc1 EXCEPT
                     !.new_tokens =
                        IF is_newly_created(token, threshold_minutes, t)
                        THEN Append(@, token) ELSE @,
                     !.seen = add_token(@, token)]
        ELSE LET r == is_new_token(acc1.seen, token)
             IN  [acc1 EXCEPT
                     !.new_tokens = IF r.result THEN Append(@, token) ELSE @,
                     !.seen = r.seen]

\* whether the iteration for item raises somewhere inside its try block
IterationRaises(item, first) ==
    \/ FromApiDataRaises(item)
    \/ first /\ RaisesAttributeError(from_api_data(item))

RECURSIVE process_loop_abort(_, _, _, _, _)
\* variant of process_loop: the first exception leaves the loop and the
\* call returns what it had built (the try is around the loop, not in it)
process_loop_abort(api, i, acc, first, t) ==
    IF i > Len(api) THEN acc
    ELSE IF IterationRaises(api[i], first) THEN acc
    ELSE process_loop_abort(api, i + 1, process_token(acc, api[i], first, t), first, t)

RECURSIVE process_loop(_, _, _, _, _)
process_loop(api, i, acc, first, t) ==
    IF i > Len(api) THEN acc
    ELSE process_loop(api, i + 1, process_token(acc, api[i], first, t), first, t)

\* SparkScraper.process_tokens(api_data) with self.token_store.seen_tokens =
\* seen, self.is_first_run = first and the clock reading t: the returned
\* (new_tokens, all_tokens) and the seen-set afterwards.
process_tokens(api, seen, first, t) ==
    IF api = <<>>
    THEN [new_tokens |-> <<>>, all_tokens |-> <<>>, seen |-> seen]
    ELSE process_loop(api, 1,
            [new_tokens |-> <<>>, all_tokens |-> <<>>, seen |-> seen], first, t)

\* sorted(all_tokens, key=lambda x: x.token_created_at, reverse=True) raises
\* TypeError when a comparison meets a None key: there are at least two
\* tokens and one of them has no token_created_at.
SortRaises(tokens) ==
    /\ Len(tokens) >= 2
    /\ \E i \in 1..Len(tokens) : tokens[i].token_created_at.kind = "none"

\* str < str on two token_created_at values: an ISO string sorts by its
\* instant and below a string that starts with a letter
KeyLess(a, b) ==
    \/ a.kind = "iso" /\ b.kind = "bad"
    \/ a.kind = "iso" /\ b.kind = "iso" /\ a.secs < b.secs

RECURSIVE InsertDesc(_, _)
\* x put into the descending list s behind the tokens whose key is not less
InsertDesc(s, x) ==
    IF s = <<>> THEN <<x>>
    ELSE IF KeyLess(Head(s).token_created_at, x.token_created_at)
         THEN <<x>> \o s
         ELSE <<Head(s)>> \o InsertDesc(Tail(s), x)

RECURSIVE sorted_desc(_)
\* sorted(tokens, key=lambda x: x.token_created_at, reverse=True), when it
\* does not raise: descending, equal keys in their original order
sorted_desc(tokens) ==
    IF tokens = <<>> THEN <<>>
    ELSE InsertDesc(sorted_desc(SubSeq(tokens, 1, Len(tokens) - 1)),
                    tokens[Len(tokens)])

\* sorted_tokens[:3]
Latest3(tokens) ==
    LET st == sorted_desc(tokens)
    IN  SubSeq(st, 1, IF Len(st) < 3 THEN Len(st) ELSE 3)

\* SparkScraper.print_tokens raises exactly when it reaches the sort of the
\* "latest 3" preview and the sort raises.
PrintTokensRaises(new, all, first) ==
    first /\ new = <<>> /\ all # <<>> /\ SortRaises(all)

\* variant of print_tokens: the preview sorts the list it was given in place
\* and that list is new_tokens
print_tokens_sorts_new_tokens(new, all, first) ==
    [raises |-> FALSE, preview |-> <<>>,
     new_tokens |-> IF SortRaises(new) THEN new ELSE sorted_desc(new)]

\* SparkScraper.print_tokens(new_tokens, all_tokens) with is_first_run =
\* first (main.py 240-259): whether it raises, the "latest 3" preview it
\* prints, and the caller's new_tokens list afterwards (sorted() builds a
\* new list, the arguments are left as they were).
print_tokens(new, all, first) ==
    [raises |-> PrintTokensRaises(new, all, first),
     preview |-> IF first /\ new = <<>> /\ all # <<>> /\ ~SortRaises(all)
                 THEN Latest3(all) ELSE <<>>,
     new_tokens |-> new]

RECURSIVE absorb_loop(_, _, _)
\* the startup branch of the init_browser response handler: from_api_data,
\* all_tokens.append and add_token for every item, an item that raises is
\* skipped (main.py 101-110); acc holds all_tokens and the seen-set
absorb_loop(api, i, acc) ==
    IF i > Len(api) THEN acc
    ELSE IF FromApiDataRaises(api[i]) THEN absorb_loop(api, i + 1, acc)
    ELSE LET token == from_api_data(api[i])
         IN  absorb_loop(api, i + 1,
                [all_tokens |-> Append(acc.all_tokens, token),
                 seen |-> add_token(acc.seen, token)])

TokenIds(tokens) == {tokens[i].token_id : i \in 1..Len(tokens)}
ItemIds(api) == {api[i].id : i \in 1..Len(api)}

(* ------------------------ demo.py: SparkScraperDemo -------------------- *)

\* variant of demo_process_token: the store is asked but not written
demo_process_token_no_mark(acc, item) ==
    IF FromApiDataRaises(item) THEN acc
    ELSE LET token == from_api_data(item)
         IN  [new_tokens |-> IF token.token_id \notin acc.seen
                             THEN Append(acc.new_tokens, token)
                             ELSE acc.new_tokens,
              seen |-> acc.seen]

\* one pass of the loop of SparkScraperDemo.process_tokens on item
\* (demo.py 33-45): an item that raises is skipped
demo_process_token(acc, item) ==
    IF FromApiDataRaises(item) THEN acc
    ELSE LET token == from_api_data(item)
         IN  [new_tokens |-> IF is_new_token(acc.seen, token).result
                             THEN Append(acc.new_tokens, token)
                             ELSE acc.new_tokens,
              seen |-> is_new_token(acc.seen, token).seen]

RECURSIVE demo_process_loop(_, _, _)
\* the for loop of SparkScraperDemo.process_tokens from item i on
demo_process_loop(api, i, acc) ==
    IF i > Len(api) THEN acc
    ELSE demo_process_loop(api, i + 1, demo_process_token(acc, api[i]))

\* SparkScraperDemo.process_tokens(api_data) on a store holding seen
demo_process_tokens(api, seen) ==
    demo_process_loop(api, 1, [new_tokens |-> <<>>, seen |-> seen])

(* ------------------------------- state -------------------------------- *)

VARIABLES
    is_first_run,       \* SparkScraper.is_first_run
    seen_tokens,        \* SparkScraper.token_store.seen_tokens
    browser,            \* TRUE iff SparkScraper.browser is not None
    rc_pc,              \* run_continuous: "idle", "goto" (awaiting page.goto), "listening"
    ro_pc,              \* run_once: "idle", "goto" (awaiting in fetch_data_via_browser)
    h1_task,            \* the init_browser handler awaits response.json()
    h2_task,            \* the run_continuous handler awaits response.json()
    api_data,           \* payload of the response in flight / batch of the last step
    new_tokens,         \* new_tokens returned by the process_tokens call of the last step
    all_tokens,         \* all_tokens built in the last step
    preview,            \* the "latest 3" list the last step printed, <<>> if none
    now,                \* the wall clock
    op,                 \* which code ran in the last step, "none" if no detection code did
    first_run_at_call,  \* history: is_first_run when that code started
    batch_handled,      \* history: some batch has reached a handler or process_tokens
    nonempty_handled,   \* history: some non-empty batch has
    ever_reported,      \* history: ids that appeared in some returned new_tokens
    ro_entry,           \* history: is_first_run and seen_tokens when the run_once in progress began
    calls,              \* SpecStore: the TokenStore calls made so far, with their results
    track,              \* whether this specification keeps all_tokens, preview,
                        \* nonempty_handled and ro_entry; it never changes
    resp,               \* history, kept with track: what the handlers did with the
                        \* response in flight
    bark,               \* SpecBark: the BarkNotifier and the call in progress on it
    co,                 \* SpecLoop: where each coroutine of the event loop stands
    running             \* SpecLoop: the coroutine the event loop is executing, "none" between

vars == <<is_first_run, seen_tokens, browser, rc_pc, ro_pc, h1_task, h2_task,
          api_data, new_tokens, all_tokens, preview, now, op, first_run_at_call,
          batch_handled, nonempty_handled, ever_reported, ro_entry, calls, track, resp, bark,
          co, running>>

\* the coroutines that can be pending on the event loop together
Coroutines == {"h1", "h2", "run_once"}

\* a coroutine that is not running: not started, or returned
Idle == [pc |-> "idle", batch |-> <<>>, k |-> 0, branch |-> "none",
         new_tokens |-> <<>>, all_tokens |-> <<>>]

NoEntry == [active |-> FALSE, first |-> FALSE, seen |-> {}, disturbed |-> FALSE]

\* the response handlers
Handlers == {"h1", "h2"}

\* no response is in flight, or its history is not kept
NoResp == [seen |-> {}, first |-> FALSE, done |-> {}, h1 |-> {}, h2 |-> {},
           flips |-> 0]

\* the notifier is not part of the specification
NoBark == [pc |-> "new", endpoint |-> <<>>, caller |-> "none", tokens |-> <<>>,
           k |-> 0, reqs |-> <<>>, result |-> FALSE, log |-> <<>>,
           any_success |-> FALSE, ret |-> "none"]

\* SparkScraper.__init__
Constructed ==
    /\ is_first_run = TRUE
    /\ seen_tokens = {}
    /\ browser = FALSE
    /\ rc_pc = "idle"
    /\ ro_pc = "idle"
    /\ h1_task = FALSE
    /\ h2_task = FALSE
    /\ new_tokens = <<>>
    /\ all_tokens = <<>>
    /\ preview = <<>>
    /\ op = "none"
    /\ first_run_at_call = FALSE
    /\ batch_handled = FALSE
    /\ nonempty_handled = FALSE
    /\ ever_reported = {}
    /\ ro_entry = NoEntry
    /\ calls = <<>>
    /\ resp = NoResp
    /\ bark = NoBark
    /\ co = [c \in Coroutines |-> Idle]
    /\ running = "none"

Init ==
    /\ Constructed
    /\ track = FALSE
    /\ api_data = <<>>
    /\ now = 1799

\* a list as this specification keeps it
Observed(tokens) == IF track THEN tokens ELSE <<>>

\* The locals of the last call are gone; the payload stays only while a
\* handler still waits for it.
LocalsGone ==
    /\ new_tokens' = <<>>
    /\ all_tokens' = <<>>
    /\ preview' = <<>>
    /\ first_run_at_call' = FALSE
    /\ api_data' = IF h1_task' \/ h2_task' THEN api_data ELSE <<>>
    /\ resp' = IF h1_task' \/ h2_task' THEN resp ELSE NoResp
    /\ UNCHANGED <<batch_handled, nonempty_handled, ever_reported, calls, track,
                   bark, co, running>>

\* the record of where run_once began lasts as long as that run_once
KeepEntry == ro_entry' = IF ro_pc' = "goto" THEN ro_entry ELSE NoEntry

\* the same, for a step that hands a batch to the detection code: the record
\* notes that it happened meanwhile
DisturbEntry ==
    ro_entry' = IF ro_pc' = "goto" /\ track
                THEN [ro_entry EXCEPT !.disturbed = TRUE]
                ELSE NoEntry

\* A step that hands no batch to the detection code.
NoBatchStep ==
    /\ op' = "none"
    /\ LocalsGone
    /\ KeepEntry

\* A step that handed api_data' to the detection code named by label, which
\* built the lists new and all and printed the preview prev.
BatchStep(label, new, all, prev) ==
    /\ op' = label
    /\ new_tokens' = new
    /\ all_tokens' = Observed(all)
    /\ preview' = Observed(prev)
    /\ first_run_at_call' = is_first_run
    /\ batch_handled' = TRUE
    /\ nonempty_handled' = (nonempty_handled \/ (track /\ api_data' # <<>>))
    /\ ever_reported' = ever_reported \cup TokenIds(new)
    /\ DisturbEntry
    /\ resp' = IF track /\ label \in Handlers
               THEN [resp EXCEPT !.done = @ \cup {label},
                                 ![label] = TokenIds(new),
                                 !.flips = IF is_first_run /\ ~is_first_run'
                                           THEN @ + 1 ELSE @]
               ELSE NoResp
    /\ UNCHANGED <<calls, track, bark, co, running>>

\* the wall clock advances
Tick ==
    /\ \E t \in ClockTicks : t > now /\ now' = t
    /\ UNCHANGED <<is_first_run, seen_tokens, browser, rc_pc, ro_pc, h1_task, h2_task>>
    /\ NoBatchStep

(* ----------------------- main.py: run_continuous ---------------------- *)

\* variant of RunContinuousStart: starting run_continuous sets
\* is_first_run = True again
RunContinuousStart_resets_phase ==
    /\ rc_pc = "idle"
    /\ browser' = TRUE
    /\ rc_pc' = "goto"
    /\ is_first_run' = TRUE
    /\ UNCHANGED <<seen_tokens, ro_pc, h1_task, h2_task, now>>
    /\ NoBatchStep

\* run_continuous up to the await of page.goto (main.py 338-358):
\* init_browser opens the browser if there is none and attaches its handler.
RunContinuousStart ==
    /\ rc_pc = "idle"
    /\ browser' = TRUE
    /\ rc_pc' = "goto"
    /\ UNCHANGED <<is_first_run, seen_tokens, ro_pc, h1_task, h2_task, now>>
    /\ NoBatchStep

\* page.goto returned: the second handler is attached (main.py 359-421)
RunContinuousLoaded ==
    /\ rc_pc = "goto"
    /\ rc_pc' = "listening"
    /\ UNCHANGED <<is_first_run, seen_tokens, browser, ro_pc, h1_task, h2_task, now>>
    /\ NoBatchStep

\* page.goto raised: "except Exception" sets is_first_run = False
\* (main.py 377-390), then the second handler is attached
RunContinuousLoadFailed ==
    /\ rc_pc = "goto"
    /\ is_first_run' = FALSE
    /\ rc_pc' = "listening"
    /\ UNCHANGED <<seen_tokens, browser, ro_pc, h1_task, h2_task, now>>
    /\ NoBatchStep

\* variant of RunContinuousExit: closing the browser also starts a new
\* TokenStore
RunContinuousExit_new_store ==
    /\ rc_pc # "idle"
    /\ browser' = FALSE
    /\ rc_pc' = "idle"
    /\ seen_tokens' = {}
    /\ UNCHANGED <<is_first_run, ro_pc, h1_task, h2_task, now>>
    /\ NoBatchStep

\* run_continuous is interrupted; "finally" runs close_browser
\* (main.py 181-187, 427-434).  The object stays usable: a later run_once or
\* run_continuous opens a new browser.
RunContinuousExit ==
    /\ rc_pc # "idle"
    /\ browser' = FALSE
    /\ rc_pc' = "idle"
    /\ UNCHANGED <<is_first_run, seen_tokens, ro_pc, h1_task, h2_task, now>>
    /\ NoBatchStep

(* ---------------------- main.py: response handlers -------------------- *)

\* The page receives a "category":"new" response with payload b.  Every
\* attached handler runs to its "await response.json()": the init_browser
\* handler always, the run_continuous handler once it is attached.  Up to the
\* await a handler changes nothing, so the next response is delivered when no
\* handler waits.
Deliver ==
    /\ browser
    /\ ~h1_task /\ ~h2_task
    /\ \E b \in FeedBatches : api_data' = b
    /\ h1_task' = TRUE
    /\ h2_task' = (rc_pc = "listening")
    /\ op' = "none"
    /\ new_tokens' = <<>>
    /\ all_tokens' = <<>>
    /\ preview' = <<>>
    /\ first_run_at_call' = FALSE
    /\ UNCHANGED <<is_first_run, seen_tokens, browser, rc_pc, ro_pc, now,
                   batch_handled, nonempty_handled, ever_reported, calls, track,
                   bark, co, running>>
    /\ resp' = IF track
               THEN [NoResp EXCEPT !.seen = seen_tokens, !.first = is_first_run]
               ELSE NoResp
    /\ KeepEntry

\* The startup branch of the init_browser handler (main.py 97-125): absorb
\* every item, print the latest 3, switch the phase.
H1StartupBranch ==
    /\ is_first_run /\ Len(api_data) > 0
    /\ LET a == absorb_loop(api_data, 1,
                   [all_tokens |-> <<>>, seen |-> seen_tokens])
           raises == a.all_tokens # <<>> /\ SortRaises(a.all_tokens)
       IN  /\ seen_tokens' = a.seen
           /\ is_first_run' =
                 IF raises
                 THEN is_first_run     \* TypeError, caught at main.py 134
                 ELSE FALSE
           /\ BatchStep("h1", <<>>, a.all_tokens,
                        IF raises THEN <<>> ELSE Latest3(a.all_tokens))

\* The init_browser handler resumes with the payload (main.py 93-129).
H1Resume ==
    /\ h1_task
    /\ h1_task' = FALSE
    /\ UNCHANGED <<api_data, browser, rc_pc, ro_pc, h2_task, now>>
    /\ \/ H1StartupBranch
       \/ \* listening branch
          /\ ~is_first_run
          /\ UNCHANGED is_first_run
          /\ LET r == process_tokens(api_data, seen_tokens, is_first_run, now)
             IN  /\ seen_tokens' = r.seen
                 /\ BatchStep("h1", r.new_tokens, r.all_tokens, <<>>)
       \/ \* first run and an empty payload: neither branch
          /\ is_first_run /\ Len(api_data) = 0
          /\ UNCHANGED <<is_first_run, seen_tokens>>
          /\ BatchStep("h1", <<>>, <<>>, <<>>)

\* variant of H2Resume: the run_continuous handler works on a TokenStore of
\* its own, what it marks is not seen by the other handler
H2Resume_own_store ==
    /\ h2_task
    /\ h2_task' = FALSE
    /\ UNCHANGED <<is_first_run, seen_tokens, api_data, browser, rc_pc, ro_pc,
                   h1_task, now>>
    /\ LET r == process_tokens(api_data, seen_tokens, is_first_run, now)
       IN  BatchStep("h2", r.new_tokens, r.all_tokens, <<>>)

\* The run_continuous handler resumes with the payload and calls
\* _process_and_display_tokens (main.py 407-412, 273-285).
H2Resume ==
    /\ h2_task
    /\ h2_task' = FALSE
    /\ UNCHANGED <<is_first_run, api_data, browser, rc_pc, ro_pc, h1_task, now>>
    /\ LET r == process_tokens(api_data, seen_tokens, is_first_run, now)
       IN  /\ seen_tokens' = r.seen
           /\ BatchStep("h2", r.new_tokens, r.all_tokens, <<>>)

\* response.json() raises in the init_browser handler (main.py 134-135)
H1JsonFails ==
    /\ h1_task
    /\ h1_task' = FALSE
    /\ UNCHANGED <<is_first_run, seen_tokens, browser, rc_pc, ro_pc, h2_task, now>>
    /\ NoBatchStep

\* response.json() raises in the run_continuous handler (main.py 417-418)
H2JsonFails ==
    /\ h2_task
    /\ h2_task' = FALSE
    /\ UNCHANGED <<is_first_run, seen_tokens, browser, rc_pc, ro_pc, h1_task, now>>
    /\ NoBatchStep

(* --------------------------- main.py: run_once ------------------------ *)

\* run_once up to the awaits of fetch_data_via_browser (main.py 309-173)
RunOnceStart ==
    /\ ro_pc = "idle"
    /\ ro_pc' = "goto"
    /\ browser' = TRUE
    /\ ro_entry' = IF track
                    THEN [active |-> TRUE, first |-> is_first_run,
                          seen |-> seen_tokens, disturbed |-> FALSE]
                    ELSE NoEntry
    /\ UNCHANGED <<is_first_run, seen_tokens, rc_pc, h1_task, h2_task, now>>
    /\ op' = "none"
    /\ LocalsGone

\* fetch_data_via_browser returns None (api_response_data is never filled),
\* fetch_data_direct returns the batch b, and run_once processes it
\* (main.py 320-336).  Nothing in this stretch awaits.  It is taken when no
\* handler waits for a payload, which loses no order of batch handling.
RunOnceFinish ==
    /\ ro_pc = "goto"
    /\ ~h1_task /\ ~h2_task
    /\ ro_pc' = "idle"
    /\ \E b \in FeedBatches :
          LET r == process_tokens(b, seen_tokens, is_first_run, now)
              p == print_tokens(r.new_tokens, r.all_tokens, is_first_run)
          IN  /\ api_data' = b
              /\ seen_tokens' = r.seen
              /\ BatchStep("run_once", p.new_tokens, r.all_tokens, p.preview)
              /\ is_first_run' =
                    IF p.raises
                    THEN is_first_run      \* run_once propagates the TypeError
                    ELSE FALSE
    /\ UNCHANGED <<browser, rc_pc, h1_task, h2_task, now>>

\* variant of RunOnceNoData: returning without data ends the startup phase,
\* as the "except" of run_continuous does
RunOnceNoData_ends_startup ==
    /\ ro_pc = "goto"
    /\ ro_pc' = "idle"
    /\ is_first_run' = FALSE
    /\ UNCHANGED <<seen_tokens, browser, rc_pc, h1_task, h2_task, now>>
    /\ op' = "run_once_no_data"
    /\ LocalsGone
    /\ UNCHANGED ro_entry

\* both fetches give None: run_once returns at main.py 324-326
RunOnceNoData ==
    /\ ro_pc = "goto"
    /\ ro_pc' = "idle"
    /\ UNCHANGED <<is_first_run, seen_tokens, browser, rc_pc, h1_task, h2_task, now>>
    /\ op' = "run_once_no_data"
    /\ LocalsGone
    /\ UNCHANGED ro_entry

Next ==
    \/ Tick
    \/ RunContinuousStart
    \/ RunContinuousLoaded
    \/ RunContinuousLoadFailed
    \/ RunContinuousExit
    \/ Deliver
    \/ H1Resume
    \/ H2Resume
    \/ H1JsonFails
    \/ H2JsonFails
    \/ RunOnceStart
    \/ RunOnceFinish
    \/ RunOnceNoData

Spec == Init /\ [][Next]_vars

(* ----------------- process_tokens on its own (SpecEngine) ------------- *)

\* a fresh object apart from the phase, the seen-set, the clock and the batch
EngineStart ==
    /\ browser = FALSE /\ rc_pc = "idle" /\ ro_pc = "idle"
    /\ h1_task = FALSE /\ h2_task = FALSE
    /\ new_tokens = <<>> /\ all_tokens = <<>> /\ preview = <<>>
    /\ op = "none" /\ first_run_at_call = FALSE
    /\ batch_handled = FALSE /\ nonempty_handled = FALSE /\ ever_reported = {}
    /\ ro_entry = NoEntry /\ calls = <<>>
    /\ resp = NoResp /\ bark = NoBark
    /\ co = [c \in Coroutines |-> Idle] /\ running = "none"

\* every seen-set, phase, clock reading and batch within the bounds
InitEngine ==
    /\ EngineStart
    /\ track = FALSE
    /\ is_first_run \in BOOLEAN
    /\ seen_tokens \in SUBSET Ids
    /\ now \in ClockTicks
    /\ api_data \in Batches

\* one call of process_tokens(api_data)
CallProcessTokens ==
    /\ op = "none"
    /\ UNCHANGED <<is_first_run, api_data, browser, rc_pc, ro_pc, h1_task, h2_task, now>>
    /\ LET r == process_tokens(api_data, seen_tokens, is_first_run, now)
       IN  /\ seen_tokens' = r.seen
           /\ BatchStep("process_tokens", r.new_tokens, r.all_tokens, <<>>)

\* print_tokens(new_tokens, all_tokens) on what process_tokens returned, as
\* run_once does (main.py 329-332)
CallPrintTokens ==
    /\ op = "process_tokens"
    /\ LET p == print_tokens(new_tokens, all_tokens, is_first_run)
       IN  /\ new_tokens' = p.new_tokens
           /\ preview' = p.preview
    /\ op' = "print_tokens"
    /\ UNCHANGED <<is_first_run, seen_tokens, api_data, all_tokens, browser, rc_pc,
                   ro_pc, h1_task, h2_task, now, first_run_at_call, batch_handled,
                   nonempty_handled, ever_reported, ro_entry, calls, track, resp, bark,
                   co, running>>

\* the startup branch of the init_browser handler on the payload api_data
CallStartupBranch ==
    /\ op = "none"
    /\ UNCHANGED <<api_data, browser, rc_pc, ro_pc, h1_task, h2_task, now>>
    /\ H1StartupBranch

NextEngine == CallProcessTokens

SpecEngine == InitEngine /\ [][NextEngine]_vars

(* ------- process_tokens, print_tokens and the startup branch (SpecPrint) *)

\* the length of the batches of SpecPrint
MaxPrintBatch == 2

PrintBatches == SeqsUpTo(Items, MaxPrintBatch)

InitPrint ==
    /\ EngineStart
    /\ track = TRUE
    /\ is_first_run \in BOOLEAN
    /\ seen_tokens \in SUBSET Ids
    /\ now \in ClockTicks
    /\ api_data \in PrintBatches

NextPrint == CallProcessTokens \/ CallPrintTokens \/ CallStartupBranch

SpecPrint == InitPrint /\ [][NextPrint]_vars

(* ------------- run_once and the handler it attaches (SpecOnce) -------- *)

\* a fresh object whose history is kept
InitOnce ==
    /\ Constructed
    /\ track = TRUE
    /\ api_data = <<>>
    /\ now = 1799

\* run_once calls, with the responses the page receives while it waits;
\* run_continuous is not called
NextOnce ==
    \/ Tick
    \/ RunOnceStart
    \/ RunOnceFinish
    \/ RunOnceNoData
    \/ Deliver
    \/ H1Resume
    \/ H1JsonFails

SpecOnce == InitOnce /\ [][NextOnce]_vars

(* ------------- run_continuous and both handlers (SpecListen) ---------- *)

\* run_continuous calls with the responses the page receives; run_once is
\* not called; the history of each response is kept
NextListen ==
    \/ Tick
    \/ RunContinuousStart
    \/ RunContinuousLoaded
    \/ RunContinuousLoadFailed
    \/ RunContinuousExit
    \/ Deliver
    \/ H1Resume
    \/ H2Resume
    \/ H1JsonFails
    \/ H2JsonFails

SpecListen == InitOnce /\ [][NextListen]_vars

(* ------------- items that are rejected or lack an id (SpecParse) ------ *)

InitParse ==
    /\ EngineStart
    /\ track = FALSE
    /\ is_first_run \in BOOLEAN
    /\ seen_tokens \in SUBSET (Ids \cup {NoId})
    /\ now \in ClockTicks
    /\ api_data \in ParseBatches

NextParse == CallProcessTokens

SpecParse == InitParse /\ [][NextParse]_vars

(* ------------------ models.py: TokenStore on its own (SpecStore) ------ *)

\* how many TokenStore calls a behaviour of SpecStore makes
MaxCalls == 4

\* a token with the given id; TokenStore reads nothing else of it
TokenOf(x) == from_api_data([id |-> x, token_created_at |-> Absent])

\* a call of fn(TokenOf(x)) that returned result enters the log
Logged(fn, x, result) ==
    /\ calls' = Append(calls, [fn |-> fn, id |-> x, result |-> result])
    /\ UNCHANGED <<is_first_run, browser, rc_pc, ro_pc, h1_task, h2_task, api_data,
                   new_tokens, all_tokens, preview, now, op, first_run_at_call,
                   batch_handled, nonempty_handled, ever_reported, ro_entry, track,
                   resp, bark, co, running>>

\* token_store.is_new_token(token)
StoreIsNewToken ==
    /\ Len(calls) < MaxCalls
    /\ \E x \in Ids :
          LET r == is_new_token(seen_tokens, TokenOf(x))
          IN  /\ seen_tokens' = r.seen
              /\ Logged("is_new_token", x, r.result)

\* token_store.add_token(token); it returns None, logged as FALSE
StoreAddToken ==
    /\ Len(calls) < MaxCalls
    /\ \E x \in Ids :
          /\ seen_tokens' = add_token(seen_tokens, TokenOf(x))
          /\ Logged("add_token", x, FALSE)

NextStore == StoreIsNewToken \/ StoreAddToken

\* a fresh TokenStore and any sequence of up to MaxCalls calls on it
SpecStore == Init /\ [][NextStore]_vars

(* --------------------- demo.py: run_demo (SpecDemo) -------------------- *)

\* SparkScraperDemo.__init__ and load_demo_data: an empty store and the
\* loaded batch
InitDemo ==
    /\ Constructed
    /\ track = FALSE
    /\ now = 1799
    /\ api_data \in ParseBatches

\* what a process_tokens call of run_demo leaves behind
DemoCall(label, r) ==
    /\ op' = label
    /\ new_tokens' = r.new_tokens
    /\ seen_tokens' = r.seen
    /\ UNCHANGED <<is_first_run, browser, rc_pc, ro_pc, h1_task, h2_task, api_data,
                   all_tokens, preview, now, first_run_at_call, batch_handled,
                   nonempty_handled, ever_reported, ro_entry, calls, track, resp, bark,
                   co, running>>

\* run_demo returns when nothing was loaded, else it calls
\* process_tokens(api_data) (demo.py 75-83)
DemoFirstCall ==
    /\ op = "none"
    /\ api_data # <<>>
    /\ DemoCall("demo_first", demo_process_tokens(api_data, seen_tokens))

\* the second process_tokens(api_data) of run_demo (demo.py 92)
DemoSecondCall ==
    /\ op = "demo_first"
    /\ DemoCall("demo_second", demo_process_tokens(api_data, seen_tokens))

NextDemo == DemoFirstCall \/ DemoSecondCall

SpecDemo == InitDemo /\ [][NextDemo]_vars

(* -------- main.py: the coroutines on the asyncio event loop (SpecLoop) - *)

\* The event loop runs one coroutine at a time and takes the next one only
\* when the running one reaches an await or returns.  SpecLoop follows the
\* two response handlers and run_once item by item: pc is "idle", "await"
\* (suspended at its await) or "section" (in the code after the await, which
\* holds the loop over the batch); k is the item the loop handles next.

\* what the other variables do in a step of SpecLoop
LoopFrame ==
    UNCHANGED <<browser, rc_pc, ro_pc, h1_task, h2_task, new_tokens, all_tokens,
                preview, now, op, first_run_at_call, batch_handled,
                nonempty_handled, ever_reported, ro_entry, calls, track, resp, bark>>

\* c starts on batch b at the branch named
InSection(b, branch) ==
    [pc |-> "section", batch |-> b, k |-> 1, branch |-> branch,
     new_tokens |-> <<>>, all_tokens |-> <<>>]

\* A new-category response arrives while both handlers are attached: each
\* runs to its "await response.json()" (main.py 93, 408).
LoopDeliver ==
    /\ running = "none"
    /\ co["h1"].pc = "idle" /\ co["h2"].pc = "idle"
    /\ \E b \in FeedBatches : api_data' = b
    /\ co' = [co EXCEPT !["h1"] = [Idle EXCEPT !.pc = "await"],
                        !["h2"] = [Idle EXCEPT !.pc = "await"]]
    /\ UNCHANGED <<is_first_run, seen_tokens, running>>
    /\ LoopFrame

\* run_once is called and suspends in fetch_data_via_browser (main.py 317)
LoopRunOnceStart ==
    /\ running = "none"
    /\ co["run_once"].pc = "idle"
    /\ co' = [co EXCEPT !["run_once"] = [Idle EXCEPT !.pc = "await"]]
    /\ UNCHANGED <<is_first_run, seen_tokens, api_data, running>>
    /\ LoopFrame

\* the event loop resumes the init_browser handler with the payload: it
\* picks its branch (main.py 97, 128)
LoopH1Resume ==
    /\ running = "none"
    /\ co["h1"].pc = "await"
    /\ IF is_first_run /\ Len(api_data) > 0
       THEN /\ co' = [co EXCEPT !["h1"] = InSection(api_data, "absorb")]
            /\ running' = "h1"
       ELSE IF ~is_first_run
       THEN /\ co' = [co EXCEPT !["h1"] = InSection(api_data, "process")]
            /\ running' = "h1"
       ELSE /\ co' = [co EXCEPT !["h1"] = Idle]
            /\ running' = "none"
    /\ UNCHANGED <<is_first_run, seen_tokens, api_data>>
    /\ LoopFrame

\* the event loop resumes the run_continuous handler with the payload
\* (main.py 408-412)
LoopH2Resume ==
    /\ running = "none"
    /\ co["h2"].pc = "await"
    /\ co' = [co EXCEPT !["h2"] = InSection(api_data, "process")]
    /\ running' = "h2"
    /\ UNCHANGED <<is_first_run, seen_tokens, api_data>>
    /\ LoopFrame

\* the event loop resumes run_once when fetch_data_direct has returned the
\* batch b (main.py 322-329)
LoopRunOnceResume ==
    /\ running = "none"
    /\ co["run_once"].pc = "await"
    /\ \E b \in FeedBatches :
          co' = [co EXCEPT !["run_once"] = InSection(b, "process")]
    /\ running' = "run_once"
    /\ UNCHANGED <<is_first_run, seen_tokens, api_data>>
    /\ LoopFrame

\* the loop state of c with the store's set, as process_token takes it
LoopAcc(c) ==
    [new_tokens |-> co[c].new_tokens, all_tokens |-> co[c].all_tokens,
     seen |-> seen_tokens]

\* one pass of the loop c is in, on its item k
LoopPass(c) ==
    LET item == co[c].batch[co[c].k]
    IN  IF co[c].branch = "absorb"
        THEN LET a == absorb_loop(<<item>>, 1,
                          [all_tokens |-> co[c].all_tokens, seen |-> seen_tokens])
             IN  [new_tokens |-> <<>>, all_tokens |-> a.all_tokens, seen |-> a.seen]
        ELSE process_token(LoopAcc(c), item, is_first_run, now)

\* variant of LoopItem: the loop body awaits, the event loop may take another
\* coroutine between two items
LoopItem_awaits(c) ==
    /\ running \in {c, "none"}
    /\ co[c].pc = "section" /\ co[c].k <= Len(co[c].batch)
    /\ LET r == LoopPass(c)
       IN  /\ seen_tokens' = r.seen
           /\ co' = [co EXCEPT ![c].k = @ + 1,
                               ![c].new_tokens = r.new_tokens,
                               ![c].all_tokens = r.all_tokens]
    /\ running' = "none"
    /\ UNCHANGED <<is_first_run, api_data>>
    /\ LoopFrame

\* c handles the next item of its batch (main.py 102-110, 218-236); there is
\* no await in the loop body, c keeps running
LoopItem(c) ==
    /\ running = c
    /\ co[c].pc = "section" /\ co[c].k <= Len(co[c].batch)
    /\ LET r == LoopPass(c)
       IN  /\ seen_tokens' = r.seen
           /\ co' = [co EXCEPT ![c].k = @ + 1,
                               ![c].new_tokens = r.new_tokens,
                               ![c].all_tokens = r.all_tokens]
    /\ UNCHANGED <<is_first_run, api_data, running>>
    /\ LoopFrame

\* the code of c after its loop raises: the sort for the "latest 3" list in
\* the startup branch (main.py 114) or in print_tokens called by run_once
\* (main.py 252)
LoopTailRaises(c) ==
    \/ /\ co[c].branch = "absorb"
       /\ co[c].all_tokens # <<>> /\ SortRaises(co[c].all_tokens)
    \/ /\ c = "run_once"
       /\ PrintTokensRaises(co[c].new_tokens, co[c].all_tokens, is_first_run)

\* c is through its loop, runs the rest of its code and returns: the startup
\* branch and run_once end the startup phase unless they raise (main.py
\* 112-125, 332-336), _process_and_display_tokens leaves the phase alone
LoopLeave(c) ==
    /\ running = c
    /\ co[c].pc = "section" /\ co[c].k > Len(co[c].batch)
    /\ is_first_run' =
          IF (co[c].branch = "absorb" \/ c = "run_once") /\ ~LoopTailRaises(c)
          THEN FALSE
          ELSE is_first_run
    /\ co' = [co EXCEPT ![c] = Idle]
    /\ running' = "none"
    /\ UNCHANGED <<seen_tokens, api_data>>
    /\ LoopFrame

NextLoop ==
    \/ LoopDeliver
    \/ LoopRunOnceStart
    \/ LoopH1Resume
    \/ LoopH2Resume
    \/ LoopRunOnceResume
    \/ \E c \in Coroutines : LoopItem(c)
    \/ \E c \in Coroutines : LoopLeave(c)

SpecLoop == Init /\ [][NextLoop]_vars

(* ------------------------------ properties ---------------------------- *)

\* the raw items the tokens of a list were built from
Raw(tokens) ==
    [i \in 1..Len(tokens) |->
        [id |-> tokens[i].token_id, token_created_at |-> tokens[i].token_created_at]]

RECURSIVE ItemsAt(_, _, _)
\* the items of b at the positions of I among 1..n, in the order of b
ItemsAt(b, I, n) ==
    IF n = 0 THEN <<>>
    ELSE IF n \in I THEN Append(ItemsAt(b, I, n - 1), b[n])
    ELSE ItemsAt(b, I, n - 1)

\* position i holds the first occurrence in b of an id that is not in S
FirstOccurrenceOfNewId(b, S, i) ==
    /\ b[i].id \notin S
    /\ \A j \in 1..(i - 1) : b[j].id # b[i].id

\* the creation instant of the item is known and its age at clock reading t
\* is strictly below 30 minutes
InStartupWindow(item, t) ==
    /\ item.token_created_at.kind = "iso"
    /\ t - item.token_created_at.secs < 30 * 60

InWindowNow(item) == InStartupWindow(item, now)

\* the creation instant of the item is unknown
UnknownInstant(item) == item.token_created_at.kind # "iso"

BatchOps == {"h1", "h2", "run_once", "process_tokens"}

\* C1: over all batches handled since construction, no token_id appears more
\* than once in the concatenation of the returned new_tokens lists: a returned
\* list holds no id twice and no id an earlier list held.
C1_NoTokenIdReportedTwice ==
    [][\A i \in 1..Len(new_tokens') :
          /\ new_tokens'[i].token_id \notin ever_reported
          /\ \A j \in 1..Len(new_tokens') :
                j # i => new_tokens'[j].token_id # new_tokens'[i].token_id]_vars

\* C2: with is_first_run False, process_tokens returns exactly the first
\* occurrences in the batch of the tokens whose id is not in the seen-set, in
\* batch order, whatever their token_created_at.
C2_SteadyStateReportsFirstOccurrences ==
    [][(op' = "process_tokens" /\ ~is_first_run) =>
          Raw(new_tokens') =
             ItemsAt(api_data,
                     {i \in 1..Len(api_data) :
                         FirstOccurrenceOfNewId(api_data, seen_tokens, i)},
                     Len(api_data))]_vars

\* C2 witness: seen-set held id 1, batch [1, 2, 2] whose two records of id 2
\* differ in token_created_at, reported [2] (the first of the two).
C2_Witness ==
    /\ op = "process_tokens" /\ ~first_run_at_call
    /\ Len(api_data) = 3
    /\ api_data[1].id = 1 /\ api_data[2].id = 2 /\ api_data[3].id = 2
    /\ api_data[2].token_created_at = Bad
    /\ api_data[3].token_created_at = Iso(1200)
    /\ Raw(new_tokens) = <<api_data[2]>>

\* C3: after a non-empty batch was processed with is_first_run True, every
\* token_id of the batch is in seen_tokens.
C3_StartupAbsorbsWholeBatch ==
    (op \in BatchOps /\ first_run_at_call /\ api_data # <<>>)
        => ItemIds(api_data) \subseteq seen_tokens

\* C4: with is_first_run True, process_tokens reports exactly the tokens whose
\* creation instant is known and whose age in seconds is strictly below
\* 30 * 60, in batch order.
C4_StartupReportingWindow ==
    (op = "process_tokens" /\ first_run_at_call)
        => Raw(new_tokens) = SelectSeq(api_data, InWindowNow)

\* C4 witness: a startup batch holding a token aged exactly 1800 s and one
\* aged 600 s; only the second is reported.
C4_Witness ==
    /\ op = "process_tokens" /\ first_run_at_call
    /\ now = 1800
    /\ Len(api_data) = 2
    /\ api_data[1].token_created_at = Iso(0)
    /\ api_data[2].token_created_at = Iso(1200)
    /\ Raw(new_tokens) = <<api_data[2]>>

\* C5: a token whose creation instant is unknown is never reported by a call
\* made with is_first_run True, and is reported by a call made with
\* is_first_run False when its id is not in the seen-set at its turn (it is
\* the first item of the batch with that id and the id was not seen before).
C5_UnknownInstant ==
    [][op' = "process_tokens" =>
          /\ is_first_run =>
                \A k \in 1..Len(new_tokens') : ~UnknownInstant(Raw(new_tokens')[k])
          /\ ~is_first_run =>
                \A i \in 1..Len(api_data) :
                   (UnknownInstant(api_data[i])
                      /\ FirstOccurrenceOfNewId(api_data, seen_tokens, i))
                   => \E k \in 1..Len(new_tokens') : Raw(new_tokens')[k] = api_data[i]]_vars

\* C5 witness: a steady-state call reported a token with an unparsable
\* token_created_at.
C5_Witness ==
    /\ op = "process_tokens" /\ ~first_run_at_call
    /\ \E k \in 1..Len(new_tokens) : new_tokens[k].token_created_at = Bad

\* C6: when a batch was processed with is_first_run True, is_first_run is
\* False once that processing has completed, on every path.
C6_StartupBatchSwitchesPhase ==
    (op \in BatchOps /\ first_run_at_call) => ~is_first_run

\* C7: an empty batch received with is_first_run True gives an empty reported
\* list, leaves seen_tokens unchanged and moves the phase to SteadyState,
\* through run_once and through a response handler.
C7_EmptyStartupBatch ==
    [][(op' \in BatchOps /\ is_first_run /\ api_data' = <<>>) =>
          /\ new_tokens' = <<>>
          /\ seen_tokens' = seen_tokens
          /\ ~is_first_run']_vars

\* C8: is_first_run is False only after some batch of the feed has been
\* processed.
C8_PhaseSwitchNeedsBatch ==
    ~is_first_run => batch_handled

\* C9: once is_first_run is False it stays False.
C9_NeverBackToStartup ==
    [][~is_first_run => ~is_first_run']_vars

\* C9 witness: run_continuous was started (the browser opened) on an object
\* whose phase had already switched after absorbing tokens.
C9_Witness ==
    /\ ~is_first_run
    /\ rc_pc = "goto" /\ browser
    /\ batch_handled /\ seen_tokens # {}

\* C10: of the first batch ever received, no token whose age is at or above
\* the threshold or whose creation instant is unknown is reported as new.
C10_FirstBatchNotReportedWholesale ==
    [][(~batch_handled /\ op' \in BatchOps) =>
          \A k \in 1..Len(new_tokens') :
             InStartupWindow(Raw(new_tokens')[k], now')]_vars

\* the item was shown by the step: it is in the returned new_tokens or in the
\* printed "latest 3" list
ShownNext(item) ==
    \/ \E k \in 1..Len(new_tokens') : Raw(new_tokens')[k] = item
    \/ \E k \in 1..Len(preview') : Raw(preview')[k] = item

\* C11: when the first non-empty batch is handled, by run_once or by the
\* init_browser handler, every token of it whose creation instant is known
\* and whose age is below 30 minutes is reported (here even: reported or
\* shown in the "latest 3" list).
C11_FirstBatchReportsYoungTokens ==
    [][(~nonempty_handled /\ op' \in {"run_once", "h1"} /\ api_data' # <<>>) =>
          \A i \in 1..Len(api_data') :
              InStartupWindow(api_data'[i], now') => ShownNext(api_data'[i])]_vars

\* C12: an item without an id is rejected: process_tokens reports no token
\* without a token_id and puts no "absent id" member into seen_tokens.
C12_NoIdItemsRejected ==
    [][op' = "process_tokens" =>
          /\ \A k \in 1..Len(new_tokens') : new_tokens'[k].token_id # NoId
          /\ NoId \in seen_tokens' => NoId \in seen_tokens]_vars

\* the iteration of process_tokens on the item runs through without raising
Survives(item) == ~IterationRaises(item, is_first_run)

\* Token.from_api_data builds a token from the item
Parses(item) == ~FromApiDataRaises(item)

C14_SeenTokensGrowsOnly ==
    /\ seen_tokens = {}
    /\ [][seen_tokens \subseteq seen_tokens']_vars

\* C14 witness: close_browser has run on an object whose store holds ids, and
\* the store still holds them.
C14_Witness ==
    /\ seen_tokens # {}
    /\ batch_handled
    /\ ~browser /\ rc_pc = "idle" /\ ro_pc = "idle"

\* C15: after any sequence of is_new_token and add_token calls on a fresh
\* store, is_new_token(x) returned True exactly when no earlier call, of
\* either kind, had named x: the first is_new_token(x) is True unless
\* add_token(x) came before, every later one is False.
C15_CheckThenMark ==
    \A i \in 1..Len(calls) :
        calls[i].fn = "is_new_token" =>
            (calls[i].result <=> \A j \in 1..(i - 1) : calls[j].id # calls[i].id)

\* C15 witness: is_new_token(1) True, is_new_token(1) False, add_token(2),
\* is_new_token(2) False.
C15_Witness ==
    /\ Len(calls) = 4
    /\ calls[1] = [fn |-> "is_new_token", id |-> 1, result |-> TRUE]
    /\ calls[2] = [fn |-> "is_new_token", id |-> 1, result |-> FALSE]
    /\ calls[3].fn = "add_token" /\ calls[3].id = 2
    /\ calls[4] = [fn |-> "is_new_token", id |-> 2, result |-> FALSE]

\* the step is a call add_token(TokenOf(x))
AddTokenStep(x) ==
    /\ Len(calls') = Len(calls) + 1
    /\ calls'[Len(calls')].fn = "add_token"
    /\ calls'[Len(calls')].id = x

\* C16: add_token(x) makes x a member and adds or removes no other member;
\* repeating it at once changes nothing.
C16_AddTokenIdempotent ==
    [][\A x \in Ids :
          AddTokenStep(x) =>
              /\ seen_tokens' = seen_tokens \cup {x}
              /\ (calls # <<>> /\ calls[Len(calls)].fn = "add_token"
                              /\ calls[Len(calls)].id = x)
                    => seen_tokens' = seen_tokens]_vars

\* C16 witness: add_token(2), add_token(1), add_token(1) left the store at
\* {1, 2}.
C16_Witness ==
    /\ Len(calls) = 3
    /\ calls[1].fn = "add_token" /\ calls[1].id = 2
    /\ calls[2].fn = "add_token" /\ calls[2].id = 1
    /\ calls[3].fn = "add_token" /\ calls[3].id = 1
    /\ seen_tokens = {1, 2}

RECURSIVE IsSubsequence(_, _)
\* s is b with some of its elements left out, the order kept
IsSubsequence(s, b) ==
    IF s = <<>> THEN TRUE
    ELSE IF b = <<>> THEN FALSE
    ELSE IF Head(s) = Head(b) THEN IsSubsequence(Tail(s), Tail(b))
    ELSE IsSubsequence(s, Tail(b))

\* C17: in both phases the list process_tokens returns is a subsequence of
\* the batch; the sort for the "latest 3" list, in print_tokens and in the
\* startup branch of the init_browser handler, changes neither the returned
\* list nor which ids seen_tokens holds.
C17_ReportedIsSubsequenceSortIsHarmless ==
    [][/\ op' = "process_tokens" => IsSubsequence(Raw(new_tokens'), api_data)
       /\ op' = "print_tokens" =>
             /\ new_tokens' = new_tokens
             /\ seen_tokens' = seen_tokens
       /\ op' = "h1" =>
             /\ new_tokens' = <<>>
             /\ seen_tokens' = seen_tokens \cup ItemIds(api_data)]_vars

\* C17 witness: print_tokens sorted a batch of two old tokens for the
\* "latest 3" list, which shows them in the other order; nothing was
\* reported and the store holds the ids of the batch.
C17_Witness ==
    /\ op = "print_tokens"
    /\ new_tokens = <<>>
    /\ Len(api_data) = 2 /\ Len(preview) = 2
    /\ api_data[1] # api_data[2]
    /\ Raw(preview) = <<api_data[2], api_data[1]>>
    /\ ItemIds(api_data) \subseteq seen_tokens

DemoParsed == SelectSeq(api_data, Parses)

C19_NoDataRunOnceLeavesStateAsAtEntry ==
    op = "run_once_no_data" =>
        /\ is_first_run = ro_entry.first
        /\ seen_tokens = ro_entry.seen

\* C19 amended: the return of run_once without a batch changes neither
\* is_first_run nor seen_tokens, and they are what they were when that
\* run_once began unless, while it waited for the page, a response reached
\* the handler init_browser attached.
C19_NoDataReturnChangesNothing ==
    [][op' = "run_once_no_data" =>
          /\ is_first_run' = is_first_run
          /\ seen_tokens' = seen_tokens
          /\ ~ro_entry'.disturbed =>
                /\ is_first_run' = ro_entry'.first
                /\ seen_tokens' = ro_entry'.seen]_vars

\* C19 witness: run_once has returned without a batch, undisturbed, on an
\* object still in its startup phase.
C19_Witness ==
    /\ op = "run_once_no_data"
    /\ ro_entry.active /\ ~ro_entry.disturbed
    /\ ro_entry.first /\ is_first_run
    /\ seen_tokens = ro_entry.seen
    /\ browser

\* C20: batches are handled one at a time: in every reachable state at most
\* one coroutine is inside its batch-processing section, and it is the one
\* the event loop is running, whatever else is pending on the loop.
C20_OneBatchAtATime ==
    \A c \in Coroutines :
        co[c].pc = "section" =>
            /\ running = c
            /\ \A d \in Coroutines : co[d].pc = "section" => d = c

\* C20 witness: run_once is in the middle of its batch while both response
\* handlers wait for their payload on the same event loop.
C20_Witness ==
    /\ co["run_once"].pc = "section"
    /\ co["run_once"].k = 2 /\ Len(co["run_once"].batch) = 2
    /\ co["h1"].pc = "await" /\ co["h2"].pc = "await"
    /\ api_data # <<>>

(* ------------------ properties of the two handlers -------------------- *)

\* both handlers have finished with the response in flight, which was
\* delivered to both of them
BothHandled == op \in Handlers /\ resp.done = Handlers

\* the ids reported for the response in flight, by either handler
ReportedForResp == resp.h1 \cup resp.h2

\* the ids reported for the response in flight when the init_browser handler
\* resumes first and the run_continuous handler after it
ReportedH1First ==
    LET a == absorb_loop(api_data, 1, [all_tokens |-> <<>>, seen |-> resp.seen])
        raises == a.all_tokens # <<>> /\ SortRaises(a.all_tokens)
        r == process_tokens(api_data, a.seen, raises, now)
    IN  TokenIds(r.new_tokens)

\* C21: a non-empty response delivered in Startup to both handlers switches
\* the phase exactly once, and the set of tokens reported for it is the one
\* reported when the init_browser handler resumes first, whichever handler
\* resumed first.
C21_StartupResponseOrderIndependent ==
    (BothHandled /\ resp.first /\ api_data # <<>>) =>
        /\ resp.flips = 1
        /\ ReportedForResp = ReportedH1First

C23_DisplayFailureDoesNotBlockSwitch ==
    (/\ first_run_at_call
     /\ api_data # <<>>
     /\ op \in {"run_once", "h1"}) => ~is_first_run

(* ----------------- bark_notifier.py: BarkNotifier (SpecBark) ----------- *)

\* the most tokens handed to one send_new_token_message call
MaxPush == 2

\* the lists of tokens handed to send_new_token_message, a token written as
\* its id
PushLists == SeqsUpTo(Ids, MaxPush)

\* the endpoints of the configuration, as strings of characters: "", "/",
\* "u" and "u/"
Endpoints == {<<>>, <<"/">>, <<"u">>, <<"u", "/">>}

RECURSIVE rstrip_slash(_)
\* endpoint.rstrip('/')
rstrip_slash(e) ==
    IF e # <<>> /\ e[Len(e)] = "/"
    THEN rstrip_slash(SubSeq(e, 1, Len(e) - 1))
    ELSE e

\* BarkNotifier.is_enabled: bool(self.endpoint)
is_enabled(endpoint) == endpoint # <<>>

\* What one HTTP request of send_message comes to: status 200 and a body
\* response.json() reads ("ok"), status 200 and response.json() raises
\* ("badbody"), another status ("non200"), asyncio.TimeoutError ("timeout"),
\* any other exception of the request ("error").
Outcomes == {"ok", "badbody", "non200", "timeout", "error"}

\* the gateway answered the request with status 200
Status200(o) == o \in {"ok", "badbody"}

\* the other variables of the module are not those of the notifier
BarkFrame ==
    UNCHANGED <<is_first_run, seen_tokens, browser, rc_pc, ro_pc, h1_task,
                h2_task, api_data, new_tokens, all_tokens, preview, now, op,
                first_run_at_call, batch_handled, nonempty_handled,
                ever_reported, ro_entry, calls, track, resp, co, running>>

\* BarkNotifier.__init__
BarkInit ==
    /\ bark.pc = "new"
    /\ \E e \in Endpoints :
          bark' = [bark EXCEPT !.pc = "idle", !.endpoint = rstrip_slash(e)]
    /\ BarkFrame

\* no call is running on the notifier
BarkAtRest == bark.pc \in {"idle", "done"}

\* a call on the notifier begins: nothing is left of the call before
BarkCall(caller, tokens, pc) ==
    [bark EXCEPT !.pc = pc, !.caller = caller, !.tokens = tokens, !.k = 1,
                 !.reqs = <<>>, !.result = FALSE, !.log = <<>>,
                 !.any_success = FALSE, !.ret = "none"]

\* send_startup_message builds one message and calls send_message
SendStartupMessage ==
    /\ BarkAtRest
    /\ bark' = BarkCall("startup", <<>>, "send")
    /\ BarkFrame

\* send_new_token_message is called: an empty list returns False at once
SendNewTokenMessage ==
    /\ BarkAtRest
    /\ \E tokens \in PushLists :
          bark' = IF tokens = <<>>
                  THEN [BarkCall("new_token", tokens, "done") EXCEPT !.ret = "False"]
                  ELSE BarkCall("new_token", tokens, "loop")
    /\ BarkFrame

\* the loop of send_new_token_message: the next token's message is built and
\* send_message is called; after the last token any_success is returned
SendNewTokenLoop ==
    /\ bark.pc = "loop"
    /\ bark' = IF bark.k <= Len(bark.tokens)
               THEN [bark EXCEPT !.pc = "send", !.reqs = <<>>, !.result = FALSE]
               ELSE [bark EXCEPT !.pc = "done",
                                 !.ret = IF bark.any_success THEN "True" ELSE "False"]
    /\ BarkFrame

\* send_message begins: without an endpoint it returns False
SendMessageEnter ==
    /\ bark.pc = "send"
    /\ bark' = IF is_enabled(bark.endpoint)
               THEN [bark EXCEPT !.pc = "post"]
               ELSE [bark EXCEPT !.pc = "returned", !.result = FALSE]
    /\ BarkFrame

\* the POST of send_message: status 200 with a readable body returns True,
\* every other outcome falls through or is caught and goes on to the GET
SendMessagePost ==
    /\ bark.pc = "post"
    /\ \E o \in Outcomes :
          bark' = [bark EXCEPT
                     !.reqs = Append(@, [method |-> "POST", outcome |-> o]),
                     !.pc = IF o = "ok" THEN "returned" ELSE "get",
                     !.result = (o = "ok")]
    /\ BarkFrame

\* the GET fallback of send_message: True for status 200 with a readable body,
\* False for another status and for every exception
SendMessageGet ==
    /\ bark.pc = "get"
    /\ \E o \in Outcomes :
          bark' = [bark EXCEPT
                     !.reqs = Append(@, [method |-> "GET", outcome |-> o]),
                     !.pc = "returned",
                     !.result = (o = "ok")]
    /\ BarkFrame

\* variant of SendMessageReturns: send_new_token_message gives up at the
\* first send that fails
SendMessageReturns_stops_at_failure ==
    /\ bark.pc = "returned"
    /\ bark' = IF bark.caller = "startup"
               THEN [bark EXCEPT !.pc = "done",
                                 !.ret = IF bark.result THEN "True" ELSE "False"]
               ELSE IF ~bark.result
               THEN [bark EXCEPT !.pc = "done", !.ret = "False",
                        !.log = Append(@, [token |-> bark.tokens[bark.k],
                                           sent |-> bark.result])]
               ELSE [bark EXCEPT !.pc = "loop", !.k = @ + 1,
                        !.log = Append(@, [token |-> bark.tokens[bark.k],
                                           sent |-> bark.result]),
                        !.any_success = TRUE]
    /\ BarkFrame

\* send_message has returned to its caller: send_startup_message returns the
\* result, send_new_token_message folds it into any_success and goes on
SendMessageReturns ==
    /\ bark.pc = "returned"
    /\ bark' = IF bark.caller = "startup"
               THEN [bark EXCEPT !.pc = "done",
                                 !.ret = IF bark.result THEN "True" ELSE "False"]
               ELSE [bark EXCEPT !.pc = "loop", !.k = @ + 1,
                        !.log = Append(@, [token |-> bark.tokens[bark.k],
                                           sent |-> bark.result]),
                        !.any_success = (@ \/ bark.result)]
    /\ BarkFrame

NextBark ==
    \/ BarkInit
    \/ SendStartupMessage
    \/ SendNewTokenMessage
    \/ SendNewTokenLoop
    \/ SendMessageEnter
    \/ SendMessagePost
    \/ SendMessageGet
    \/ SendMessageReturns

SpecBark == Init /\ [][NextBark]_vars

(* ---------------------- properties of the notifier --------------------- *)

\* the requests send_message has made so far in the call in progress
Sent(method) == {i \in 1..Len(bark.reqs) : bark.reqs[i].method = method}

\* send_message has returned and its caller has not yet gone on
SendMessageReturned == bark.pc = "returned"

\* the POST of the call in progress succeeded: status 200 and a body read
PostSucceeded ==
    \E i \in Sent("POST") : bark.reqs[i].outcome = "ok"

\* C24: when send_message has returned: with an endpoint the first request is
\* the POST; a GET was made exactly when the POST did not succeed; the result
\* is True exactly when the POST succeeded or the GET was answered with
\* status 200; without an endpoint no request was made and the result is
\* False.
C24_SendMessageContract ==
    SendMessageReturned =>
        IF is_enabled(bark.endpoint)
        THEN /\ bark.reqs # <<>> /\ bark.reqs[1].method = "POST"
             /\ (Sent("GET") # {}) <=> ~PostSucceeded
             /\ bark.result <=>
                   \/ PostSucceeded
                   \/ \E i \in Sent("GET") : Status200(bark.reqs[i].outcome)
        ELSE bark.reqs = <<>> /\ ~bark.result

\* C25: within one send_message call no GET is made after a POST that the
\* gateway answered with status 200.
C25_NoGetAfterPost200 ==
    \A i \in Sent("POST") :
        Status200(bark.reqs[i].outcome) =>
            \A j \in Sent("GET") : j < i

\* C26: send_new_token_message calls send_message once per token, in list
\* order, also after a send that failed; when it has returned every token has
\* had its send and the value returned is True exactly when a send returned
\* True; for an empty list no send is made and False is returned.
C26_OneSendPerToken ==
    bark.caller = "new_token" =>
        /\ Len(bark.log) <= Len(bark.tokens)
        /\ \A i \in 1..Len(bark.log) : bark.log[i].token = bark.tokens[i]
        /\ bark.pc = "done" =>
              /\ Len(bark.log) = Len(bark.tokens)
              /\ bark.ret = IF \E i \in 1..Len(bark.log) : bark.log[i].sent
                            THEN "True" ELSE "False"

\* a call with two tokens has returned True: the first send failed, the
\* second was made all the same and succeeded
C26_Witness ==
    /\ bark.caller = "new_token" /\ bark.pc = "done" /\ bark.ret = "True"
    /\ Len(bark.tokens) = 2 /\ Len(bark.log) = 2
    /\ ~bark.log[1].sent /\ bark.log[2].sent

====
